---- MODULE Spec2Model ----
(***************************************************************************)
(* Document ingestion and retrieval pipeline of Legal-AI-Suite:            *)
(*   server/tasks.py            process_document, regenerate_embeddings    *)
(*   server/routes_documents.py upload_document, regenerate_analysis       *)
(*   server/vector_db.py        upsert / search / delete on the index      *)
(*   server/ai_service.py       chunk_text, generate_embeddings            *)
(*   server/db_postgres.py      update_document_status, create_document    *)
(*                                                                         *)
(* A text is abstracted to its number of whitespace-delimited words and    *)
(* whether it holds any character at all; a chunk is the half-open range   *)
(* [lo, hi) of word positions that  words[i:i + chunk_size]  selects.      *)
(***************************************************************************)
EXTENDS Integers, Sequences, FiniteSets, TLC

VARIABLES
    documents,        \* documents table: DocIds -> row, or NoDoc
    summaries,        \* summaries table: DocIds -> number of rows
    clauses,          \* clauses table:   DocIds -> number of rows
    facts,            \* facts table:     DocIds -> number of rows
    chunks,           \* chunks table: set of rows
    embeddings,       \* embeddings table: set of rows
    usage,            \* usage_metrics table: metric -> number of rows
    audit,            \* audit_logs table: set of <<action, resource_id>>
    index,            \* content of the Pinecone index: set of vectors
    index_configured, \* vector_db.index is not None
    provider,         \* ai_service.get_active_provider()
    process_jobs,     \* process_document task per document
    regenerate_jobs,  \* regenerate_embeddings tasks
    last_search,      \* what the last search_similar_chunks call returned
    last_delete,      \* what the last delete_document_vectors call returned
    chat_messages,    \* chat_messages table: the rows in the order of their INSERT
    last_chat,        \* what the last chat_with_document request did
    last_call,        \* the last call of a function of ai_service.py on its own
    concurrency,      \* tasks the Celery worker pool runs at a time
    faults            \* whether a call made by a task or an upload may raise

vars == <<documents, summaries, clauses, facts, chunks, embeddings, usage, audit,
          index, index_configured, provider, process_jobs, regenerate_jobs,
          last_search, last_delete, chat_messages, last_chat, last_call,
          concurrency, faults>>

store == <<documents, summaries, clauses, facts, chunks, embeddings, usage, audit>>
env == <<index_configured, provider, concurrency, faults>>
chat == <<chat_messages, last_chat>>
calls == <<last_search, last_delete, chat_messages, last_chat, last_call>>

----------------------------------------------------------------------------
(* Bounds of the model *)

\* words of the longest uploaded text: two windows of 500 words with overlap 50
MaxWords == 501
\* rows the provider's clause list holds at most
MaxClauses == 1
\* regenerate requests accepted in one behaviour
MaxRegen == 2
\* regenerate requests accepted in a behaviour in which calls may fail
MaxRegenFaulty == 1
\* largest top_k a search asks for
MaxTopK == 2
\* chunks of a small indexed document
MaxStored == 2
\* chat requests of one behaviour
MaxChats == 2
\* largest tokens_used a completion reports
MaxTokens == 2
\* words of the longest text chunk_text is called with on its own
MaxChunkWords == 12
\* largest chunk_size of those calls
MaxChunkSize == 5

(* Program constants *)

CHUNK_SIZE == 500
OVERLAP == 50
EXCERPT_CHARS == 1000
BATCH_SIZE == 100
DELETE_TOP_K == 10000
CHAT_TOP_K == 5
HISTORY_KEPT == 6

DocIds == {"d1"}
Firms == {"fA", "fB"}
RegenIds == 1..MaxRegen
Providers == {"openai", "openrouter", "perplexity"}

None == "None"
Min(a, b) == IF a <= b THEN a ELSE b

----------------------------------------------------------------------------
(* Texts *)

\* a str (or NULL): number of words and whether it has any character
Text(n, nonempty) == [null |-> FALSE, words |-> n, nonempty |-> nonempty]
NullText == [null |-> TRUE, words |-> 0, nonempty |-> FALSE]
EmptyText == Text(0, FALSE)
BlankText == Text(0, TRUE)

\* bool(s) of a str or None
Truthy(t) == ~t.null /\ t.nonempty
\* s.strip()
Strip(t) == IF t.words = 0 THEN EmptyText ELSE t

\* what PdfReader yields for the uploaded file: an error, or the pages' text
File(readable, text) == [readable |-> readable, text |-> text]
Files == {File(FALSE, EmptyText)} \cup
         {File(TRUE, t) : t \in {EmptyText, BlankText, Text(MaxWords, TRUE)}}

----------------------------------------------------------------------------
(* ai_service.py *)

Chunk(lo, hi) == [lo |-> lo, hi |-> hi]
NoChunk == Chunk(0, 0)

RECURSIVE chunk_loop(_, _, _, _)
chunk_loop(n, i, chunk_size, overlap) ==
    IF i >= n THEN << >>
    ELSE LET chunk == Chunk(i, Min(i + chunk_size, n))
         IN  IF i + chunk_size >= n
             THEN <<chunk>>
             ELSE <<chunk>> \o chunk_loop(n, i + (chunk_size - overlap), chunk_size, overlap)

\* the windows but the last one, when there are several
chunk_text_without_tail(text, chunk_size, overlap) ==
    LET windows == chunk_loop(text.words, 0, chunk_size, overlap)
    IN  IF Len(windows) > 1 THEN SubSeq(windows, 1, Len(windows) - 1) ELSE windows

\* windows that advance by chunk_size: no word is in two of them
chunk_text_disjoint(text, chunk_size, overlap) == chunk_loop(text.words, 0, chunk_size, 0)

\* chunk_text(text, chunk_size, overlap): the windows over text.split()
chunk_text(text, chunk_size, overlap) == chunk_loop(text.words, 0, chunk_size, overlap)

\* len(chunk.split())
token_count(chunk) == chunk.hi - chunk.lo

\* an embedding: the vector the provider computed for a text, the all-zero
\* vector of 1536 entries, or the empty list
Embedding(kind, chunk) == [kind |-> kind, text |-> chunk]
RealVector(chunk) == Embedding("real", chunk)
ZeroVector == Embedding("zeros", NoChunk)
EmptyList == Embedding("empty", NoChunk)

\* bool(embedding) of a list
NonEmpty(e) == e.kind # "empty"

\* generate_embeddings(text): call_ok says whether the provider's call returned
generate_embeddings(text, call_ok) ==
    IF provider = "openai"
    THEN IF call_ok THEN RealVector(text) ELSE EmptyList
    ELSE IF provider = "openrouter"
    THEN IF call_ok THEN RealVector(text) ELSE EmptyList
    ELSE ZeroVector

\* [e for e in s if e]
RECURSIVE SelectNonEmpty(_)
SelectNonEmpty(s) ==
    IF s = << >> THEN << >>
    ELSE IF NonEmpty(Head(s)) THEN <<Head(s)>> \o SelectNonEmpty(Tail(s))
    ELSE SelectNonEmpty(Tail(s))

\* a zip that loses its last pair
ZipLenShort(a, b) == Min(Len(a), Len(b)) - 1

\* len(list(zip(a, b)))
ZipLen(a, b) == Min(Len(a), Len(b))

\* what a list of embeddings holds: a provider's vector, else an all-zero
\* vector, else nothing
Obtained(embedding_list) ==
    IF \E k \in 1..Len(embedding_list) : embedding_list[k].kind = "real" THEN "real"
    ELSE IF \E k \in 1..Len(embedding_list) : embedding_list[k].kind = "zeros" THEN "sentinel"
    ELSE "nothing"

\* what _call_ai_provider returns: an error, or a content that is a JSON
\* object, a JSON object in a ```json fence, a JSON value that is no object,
\* or no JSON at all
Responses == {"error", "json_object", "fenced_object", "json_array", "not_json"}

\* json.loads(content): the value's kind, or a JSONDecodeError
json_loads(content) ==
    IF content = "json_object" THEN [success |-> TRUE, data |-> "object"]
    ELSE IF content = "json_array" THEN [success |-> TRUE, data |-> "array"]
    ELSE [success |-> FALSE, data |-> None]

\* _parse_json_response(content): the text between the fence markers, if any,
\* is what json.loads gets
StripFence(content) == IF content = "fenced_object" THEN "json_object" ELSE content
parse_json_response(content) == json_loads(StripFence(content))

\* generate_summary(text): success and the parsed value
generate_summary(response) ==
    IF response = "error" THEN [success |-> FALSE, data |-> None, raises |-> FALSE]
    ELSE LET parsed == parse_json_response(response)
         IN  [success |-> parsed.success, data |-> parsed.data, raises |-> FALSE]

\* extract_clauses(text): json.loads on the raw content; result.get raises an
\* AttributeError, which the function does not catch, on a value that is no object
extract_clauses(response) ==
    IF response = "error" THEN [success |-> FALSE, data |-> None, raises |-> FALSE]
    ELSE LET parsed == json_loads(response)
         IN  IF parsed.success /\ parsed.data # "object"
             THEN [success |-> FALSE, data |-> None, raises |-> TRUE]
             ELSE [success |-> parsed.success, data |-> parsed.data, raises |-> FALSE]

\* extract_facts(text): success and the parsed value
extract_facts(response) ==
    IF response = "error" THEN [success |-> FALSE, data |-> None, raises |-> FALSE]
    ELSE LET parsed == parse_json_response(response)
         IN  [success |-> parsed.success, data |-> parsed.data, raises |-> FALSE]

----------------------------------------------------------------------------
\* the messages chat_with_context sends: the system prompt with its rules
\* (answer only from the context; without the answer there, say that the
\* document does not hold enough information), the last 6 messages of the
\* conversation, and the user message with the context
SystemPrompt == [role |-> "system", rules |-> TRUE, context |-> {}]
UserMessage(context) == [role |-> "user", rules |-> FALSE, context |-> context]
LastMessages(history, n) ==
    IF Len(history) <= n THEN history ELSE SubSeq(history, Len(history) - n + 1, Len(history))
ChatPrompt(context, conversation_history) ==
    <<SystemPrompt>> \o LastMessages(conversation_history, HISTORY_KEPT)
                    \o <<UserMessage(context)>>

\* chat_with_context(question, context, conversation_history): reply_ok says
\* whether _call_ai_provider returned a content; tokens is its tokens_used
chat_with_context(context, conversation_history, reply_ok, tokens) ==
    [success |-> reply_ok,
     messages |-> ChatPrompt(context, conversation_history),
     tokens_used |-> IF reply_ok THEN tokens ELSE 0]

----
(* vector_db.py *)

\* generate_vector_id(doc_id, chunk_index): f"{doc_id}_chunk_{chunk_index}"
generate_vector_id(doc_id, chunk_index) == [doc_id |-> doc_id, chunk |-> chunk_index]

\* chunk[:1000]: the first 1000 characters; a word counts one character and
\* the windows are joined by single spaces
CharLen(chunk) == IF chunk.hi = chunk.lo THEN 0 ELSE 2 * (chunk.hi - chunk.lo) - 1
Excerpt(chunk) == [lo |-> chunk.lo, chars |-> Min(CharLen(chunk), EXCERPT_CHARS)]

\* the vectors upsert_document_vectors builds from zip(chunks, embeddings)
BuildVectors(doc_id, firm_id, chunk_list, embedding_list) ==
    [i \in 1..ZipLen(chunk_list, embedding_list) |->
        [id |-> generate_vector_id(doc_id, i - 1),
         values |-> embedding_list[i],
         metadata |-> [doc_id |-> doc_id, firm_id |-> firm_id,
                       chunk_index |-> i - 1, text |-> Excerpt(chunk_list[i])]]]

\* index.upsert(vectors=batch): a vector replaces the one with its id
IndexUpsert(idx, batch) ==
    {v \in idx : \A k \in 1..Len(batch) : batch[k].id # v.id}
        \cup {batch[k] : k \in 1..Len(batch)}

\* the batches of 100 of upsert_document_vectors, the first `done` of them sent
NumBatches(vectors) == (Len(vectors) + BATCH_SIZE - 1) \div BATCH_SIZE
RECURSIVE UpsertBatches(_, _, _)
UpsertBatches(idx, vectors, done) ==
    IF done = 0 THEN idx
    ELSE IndexUpsert(UpsertBatches(idx, vectors, done - 1),
                     SubSeq(vectors, (done - 1) * BATCH_SIZE + 1,
                            Min(done * BATCH_SIZE, Len(vectors))))

\* what upsert_document_vectors returns: False without an index and when
\* index.upsert raised, else True
UpsertReturns(vectors, sent) == index_configured /\ sent = NumBatches(vectors)

\* upsert_document_vectors: the index it leaves; `sent` batches were accepted
\* before index.upsert raised (all of them when it did not raise)
upsert_document_vectors(idx, doc_id, firm_id, chunk_list, embedding_list, sent) ==
    IF ~index_configured THEN idx
    ELSE UpsertBatches(idx, BuildVectors(doc_id, firm_id, chunk_list, embedding_list), sent)

\* index.query(vector, filter, top_k): the sets of matches it may return, the
\* top_k best-scoring vectors among those the metadata filter selects
Filtered(idx, firm_filter, doc_filter) ==
    {v \in idx : /\ (firm_filter # None => v.metadata.firm_id = firm_filter)
                 /\ (doc_filter # None => v.metadata.doc_id = doc_filter)}

\* the subsets of r elements of S
SubsetsOfSize(S, r) ==
    IF r = 0 THEN {{}}
    ELSE IF r = 1 THEN {{v} : v \in S}
    ELSE {m \in SUBSET S : Cardinality(m) = r}

\* the selected vectors a query may leave out: those beyond the top_k best
IndexQueryMisses(idx, firm_filter, doc_filter, top_k) ==
    LET sel == Filtered(idx, firm_filter, doc_filter)
    IN  SubsetsOfSize(sel, Cardinality(sel) - Min(top_k, Cardinality(sel)))

IndexQuery(idx, firm_filter, doc_filter, top_k) ==
    {Filtered(idx, firm_filter, doc_filter) \ out :
        out \in IndexQueryMisses(idx, firm_filter, doc_filter, top_k)}

\* a filter that leaves the firm out
SearchFilterDocOnly(firm_id, doc_id) == [firm_id |-> None, doc_id |-> doc_id]

\* the filter search_similar_chunks builds: firm_id always, doc_id when truthy
SearchFilter(firm_id, doc_id) == [firm_id |-> firm_id, doc_id |-> doc_id]

\* search_similar_chunks: the results it may return; call_ok: index.query
\* did not raise
search_similar_chunks(idx, firm_id, top_k, doc_id, call_ok) ==
    IF ~index_configured \/ ~call_ok THEN {{}}
    ELSE LET f == SearchFilter(firm_id, doc_id)
         IN  {{[doc_id |-> m.metadata.doc_id, chunk_index |-> m.metadata.chunk_index,
                text |-> m.metadata.text, metadata |-> m.metadata] : m \in ms} :
              ms \in IndexQuery(idx, f.firm_id, f.doc_id, top_k)}

\* index.delete(ids=vector_ids)
IndexDelete(idx, vector_ids) == {v \in idx : v.id \notin vector_ids}

\* delete_document_vectors(doc_id): the index it may leave and the value it
\* returns; query_ok and delete_ok: index.query and index.delete did not raise.
\* The ids deleted are those of the matches of a query with top_k = 10000
\* filtered by doc_id. An id names one vector of the index, so deleting the
\* ids of the matches leaves the vectors of the other documents and the
\* vectors the query left out (DeleteLeavesTheMisses)
DeleteOutcomes(idx, doc_id, query_ok, delete_ok) ==
    IF ~index_configured \/ ~query_ok THEN {[index |-> idx, returned |-> FALSE]}
    ELSE IF Filtered(idx, None, doc_id) = {} THEN {[index |-> idx, returned |-> TRUE]}
    ELSE IF ~delete_ok THEN {[index |-> idx, returned |-> FALSE]}
    ELSE LET rest == {v \in idx : v.metadata.doc_id # doc_id}
         IN  {[index |-> rest \cup out, returned |-> TRUE] :
              out \in IndexQueryMisses(idx, None, doc_id, DELETE_TOP_K)}

\* the indexes delete_document_vectors(doc_id) may leave
delete_document_vectors(idx, doc_id, query_ok, delete_ok) ==
    {o.index : o \in DeleteOutcomes(idx, doc_id, query_ok, delete_ok)}

----------------------------------------------------------------------------
(* db_postgres.py *)

\* no row with that id
NoDoc == [exists |-> FALSE, firm_id |-> None, status |-> None, text_content |-> NullText]

\* no row with that id any more: the id was issued and its row deleted
DeletedDoc == [NoDoc EXCEPT !.status = "deleted"]

\* create_document: the row INSERTed, status 'pending', no text
NewDocument(firm_id) ==
    [exists |-> TRUE, firm_id |-> firm_id, status |-> "pending", text_content |-> NullText]

\* update_document_status(doc_id, status, text_content): the UPDATE touches the
\* row with that id, if any; the text is written only when it is truthy
update_document_status(docs, doc_id, status, text_content) ==
    IF ~docs[doc_id].exists THEN docs
    ELSE IF Truthy(text_content)
    THEN [docs EXCEPT ![doc_id].status = status, ![doc_id].text_content = text_content]
    ELSE [docs EXCEPT ![doc_id].status = status]

\* bump_usage(user_id, firm_id, metric, value): one more row for the metric
bump_usage(u, metric) == [u EXCEPT ![metric] = @ + 1]

\* log_audit(action, 'document', resource_id, ...)
log_audit(a, action, resource_id) == a \cup {<<action, resource_id>>}

----------------------------------------------------------------------------
(* Jobs *)

\* a process_document task: its arguments, position and local variables; error
\* is where the exception it caught (or the failure it returned) arose, and
\* embedded records what the embedding calls of the run returned ("real": some
\* chunk got a vector of the provider; "sentinel": only all-zero vectors;
\* "nothing": only empty lists), upserted what upsert_document_vectors returned
\* ("indexed" for True, "not_indexed" for False)
NoProcessJob ==
    [pc |-> "none", firm_id |-> None, file |-> File(FALSE, EmptyText),
     text_content |-> EmptyText, embeddings |-> << >>, i |-> 0, embedded |-> None,
     upserted |-> None,
     error |-> "none", result |-> [success |-> FALSE, chunks_count |-> 0, embeddings_count |-> 0]]

\* a regenerate_embeddings task; rows records the number of chunk rows the
\* document had when the task returned
NoRegenerateJob ==
    [pc |-> "none", doc_id |-> None, firm_id |-> None,
     text_content |-> EmptyText, embeddings |-> << >>, i |-> 0,
     error |-> "none", rows |-> 0, result |-> [success |-> FALSE, chunks_count |-> 0]]

\* no chat_with_document request yet
NoChat ==
    [turn |-> 0, document_id |-> None, firm_id |-> None, retrieval |-> "none",
     completion |-> << >>, outcome |-> "none", sources |-> {}, bumped |-> << >>]

\* no delete_document_vectors call yet
NoDelete == [doc_id |-> None, returned |-> FALSE, others |-> {}]

\* no function of ai_service.py called on its own yet
NoCall ==
    [fn |-> "none", text |-> EmptyText, chunk_size |-> 0, overlap |-> 0, response |-> None,
     chunks |-> << >>, result |-> [success |-> FALSE, data |-> None, raises |-> FALSE]]

\* the state at start, the index holding one of `indexes`
InitState(workers, may_fail, indexes) ==
    /\ documents = [d \in DocIds |-> NoDoc]
    /\ summaries = [d \in DocIds |-> 0]
    /\ clauses = [d \in DocIds |-> 0]
    /\ facts = [d \in DocIds |-> 0]
    /\ chunks = {}
    /\ embeddings = {}
    /\ usage = [m \in {"ai_tokens", "docs_uploaded", "chats"} |-> 0]
    /\ audit = {}
    /\ index \in indexes
    /\ index_configured \in BOOLEAN
    /\ provider \in Providers
    /\ process_jobs = [d \in DocIds |-> NoProcessJob]
    /\ regenerate_jobs = [k \in RegenIds |-> NoRegenerateJob]
    /\ last_search = [firm_id |-> None, doc_id |-> None, top_k |-> 0, chunks |-> {}]
    /\ last_delete = NoDelete
    /\ chat_messages = << >>
    /\ last_chat = NoChat
    /\ last_call = NoCall
    /\ concurrency = workers
    /\ faults = may_fail

\* nothing stored, nothing indexed
InitEnv(workers, may_fail) == InitState(workers, may_fail, {{}})

\* one worker; calls to the store, the index and the providers may fail
Init == InitEnv(1, TRUE)

----------------------------------------------------------------------------
(* The environment of a call *)

\* whether a call to the store, the index or the embedding provider returns
Oks == IF faults THEN BOOLEAN ELSE {TRUE}
\* what the completion provider answers
Replies == IF faults THEN Responses ELSE {"json_object"}
\* rows of n written before an INSERT raised (n: none raised)
Written(n) == IF faults THEN 0..n ELSE {n}
\* batches the index accepted before index.upsert raised (all: none raised)
Sent(vectors) == IF faults THEN 0..NumBatches(vectors) ELSE {NumBatches(vectors)}

\* an INSERT of a row that references document d: with the references that
\* let the rows go with their document (see DeleteDocumentRow), it raises once
\* the document's row is gone
RefOks(d) == IF documents[d].exists THEN Oks ELSE {FALSE}
RefWritten(d, n) == IF documents[d].exists THEN Written(n) ELSE {0}

\* the tasks a worker is executing
Executing(job) == job.pc \notin {"none", "queued", "done", "crashed"}
Running == Cardinality({d \in DocIds : Executing(process_jobs[d])})
            + Cardinality({k \in RegenIds : Executing(regenerate_jobs[k])})
WorkerFree == Running < concurrency

----------------------------------------------------------------------------
(* routes_documents.py: upload_document *)

\* db.generate_uuid() of create_document: an id no document has had
FreshDocId == CHOOSE d \in DocIds : documents[d] = NoDoc

\* POST /upload of a .pdf by a user of firm_id: the row is created, the task is
\* queued unless .delay raises, then the audit row and the usage row are written
\* (either may raise and end the request with an error)
upload_document(firm_id, file, queued, audited, bumped) ==
    /\ \E d \in DocIds : documents[d] = NoDoc
    /\ LET doc_id == FreshDocId
       IN  /\ documents' = [documents EXCEPT ![doc_id] = NewDocument(firm_id)]
           /\ process_jobs' = IF queued
                THEN [process_jobs EXCEPT ![doc_id] =
                        [NoProcessJob EXCEPT !.pc = "queued", !.firm_id = firm_id, !.file = file]]
                ELSE process_jobs
           /\ audit' = IF audited THEN log_audit(audit, "upload", doc_id) ELSE audit
           /\ usage' = IF audited /\ bumped THEN bump_usage(usage, "docs_uploaded") ELSE usage
    /\ UNCHANGED <<summaries, clauses, facts, chunks, embeddings, index, env,
                   regenerate_jobs, calls>>

----------------------------------------------------------------------------
(* tasks.py: process_document_task *)

\* the task's except branch is entered with the exception raised at `at`
Raise(job, at) == [job EXCEPT !.pc = "handler", !.error = at]

\* the task returns: its local variables are gone, its result stays
Return(job, success, chunks_count, embeddings_count) ==
    [job EXCEPT !.pc = "done", !.text_content = EmptyText, !.embeddings = << >>, !.i = 0,
                !.result = [success |-> success, chunks_count |-> chunks_count,
                            embeddings_count |-> embeddings_count]]

\* chunk_text(text_content, chunk_size=500, overlap=50) of the task
JobChunks(job) == chunk_text(job.text_content, CHUNK_SIZE, OVERLAP)

\* the uuid of the chunk row a task writes for position i: job 0 is the
\* document's process task, job k > 0 a regenerate task
RowId(job, doc_id, i) == [job |-> job, doc_id |-> doc_id, i |-> i]

ChunkRow(id, doc_id, i, chunk) ==
    [id |-> id, document_id |-> doc_id, chunk_index |-> i, chunk_text |-> chunk,
     token_count |-> token_count(chunk)]

EmbeddingRow(id, chunk_id, vector_id) ==
    [id |-> id, chunk_id |-> chunk_id, external_vector_id |-> vector_id]

\* lines 105-133: what a run whose calls to the store and the index succeed
\* writes for a text, `kept` being the non-empty embeddings it collected: the
\* chunk rows (index and text), the vector ids of the embedding-reference
\* rows, and the vectors; nothing at all when no embedding was kept
ProcessArtifacts(doc_id, firm_id, text_content, kept) ==
    LET chunk_list == chunk_text(text_content, CHUNK_SIZE, OVERLAP)
        pairs == 1..ZipLen(chunk_list, kept)
    IN  [chunks |-> {[chunk_index |-> i - 1, chunk_text |-> chunk_list[i]] : i \in pairs},
         vector_ids |-> {generate_vector_id(doc_id, i - 1) : i \in pairs},
         vectors |-> {BuildVectors(doc_id, firm_id, chunk_list, kept)[i] : i \in pairs}]

\* line 38: update_document_status(doc_id, 'processing')
ProcessStart(d) ==
    /\ process_jobs[d].pc = "queued"
    /\ WorkerFree
    /\ \E ok \in Oks :
         IF ok
         THEN /\ documents' = update_document_status(documents, d, "processing", NullText)
              /\ process_jobs' = [process_jobs EXCEPT ![d].pc = "extract"]
         ELSE /\ documents' = documents
              /\ process_jobs' = [process_jobs EXCEPT ![d] = Raise(@, "status_processing")]
    /\ UNCHANGED <<summaries, clauses, facts, chunks, embeddings, usage, audit, index,
                   env, regenerate_jobs, calls>>

\* lines 40-56: read the PDF; on an error or no text, status 'failed' and
\* return; else write the text with status 'processing'
ProcessExtract(d) ==
    /\ process_jobs[d].pc = "extract"
    /\ LET job == process_jobs[d]
           text == job.file.text
           no_text == ~job.file.readable \/ ~Truthy(Strip(text))
       IN  \E ok \in Oks :
             IF ~ok
             THEN /\ documents' = documents
                  /\ process_jobs' = [process_jobs EXCEPT ![d] =
                        Raise(@, IF no_text THEN "status_failed" ELSE "status_text")]
             ELSE IF no_text
             THEN /\ documents' = update_document_status(documents, d, "failed", NullText)
                  /\ process_jobs' = [process_jobs EXCEPT ![d] =
                        Return([@ EXCEPT !.error = "no_text"], FALSE, 0, 0)]
             ELSE /\ documents' = update_document_status(documents, d, "processing", text)
                  /\ process_jobs' = [process_jobs EXCEPT ![d].pc = "summary",
                                                          ![d].text_content = text]
    /\ UNCHANGED <<summaries, clauses, facts, chunks, embeddings, usage, audit, index,
                   env, regenerate_jobs, calls>>

\* lines 58-72: generate_summary; on success INSERT INTO summaries, bump_usage
ProcessSummary(d) ==
    /\ process_jobs[d].pc = "summary"
    /\ \E response \in Replies, insert_ok \in RefOks(d), bump_ok \in Oks :
         LET summary_result == generate_summary(response)
         IN  IF ~summary_result.success
             THEN /\ process_jobs' = [process_jobs EXCEPT ![d].pc = "clauses"]
                  /\ UNCHANGED <<summaries, usage>>
             ELSE IF summary_result.data # "object"
             THEN \* summary_result["summary"].get: no such attribute
                  /\ process_jobs' = [process_jobs EXCEPT ![d] = Raise(@, "summary_get")]
                  /\ UNCHANGED <<summaries, usage>>
             ELSE IF ~insert_ok
             THEN /\ process_jobs' = [process_jobs EXCEPT ![d] = Raise(@, "summary_insert")]
                  /\ UNCHANGED <<summaries, usage>>
             ELSE IF ~bump_ok
             THEN /\ summaries' = [summaries EXCEPT ![d] = @ + 1]
                  /\ process_jobs' = [process_jobs EXCEPT ![d] = Raise(@, "summary_bump")]
                  /\ UNCHANGED usage
             ELSE /\ summaries' = [summaries EXCEPT ![d] = @ + 1]
                  /\ usage' = bump_usage(usage, "ai_tokens")
                  /\ process_jobs' = [process_jobs EXCEPT ![d].pc = "clauses"]
    /\ UNCHANGED <<documents, clauses, facts, chunks, embeddings, audit, index,
                   env, regenerate_jobs, calls>>

\* lines 74-89: extract_clauses; on success one INSERT INTO clauses per clause
\* of the list (n of them, `written` before an INSERT raised), then bump_usage
ProcessClauses(d) ==
    /\ process_jobs[d].pc = "clauses"
    /\ \E response \in Replies, n \in 0..MaxClauses, bump_ok \in Oks :
       \E written \in RefWritten(d, n) :
         LET clauses_result == extract_clauses(response)
         IN  IF clauses_result.raises
             THEN /\ process_jobs' = [process_jobs EXCEPT ![d] = Raise(@, "clauses_get")]
                  /\ UNCHANGED <<clauses, usage>>
             ELSE IF ~clauses_result.success
             THEN /\ process_jobs' = [process_jobs EXCEPT ![d].pc = "facts"]
                  /\ UNCHANGED <<clauses, usage>>
             ELSE IF written < n
             THEN /\ clauses' = [clauses EXCEPT ![d] = @ + written]
                  /\ process_jobs' = [process_jobs EXCEPT ![d] = Raise(@, "clauses_insert")]
                  /\ UNCHANGED usage
             ELSE IF ~bump_ok
             THEN /\ clauses' = [clauses EXCEPT ![d] = @ + n]
                  /\ process_jobs' = [process_jobs EXCEPT ![d] = Raise(@, "clauses_bump")]
                  /\ UNCHANGED usage
             ELSE /\ clauses' = [clauses EXCEPT ![d] = @ + n]
                  /\ usage' = bump_usage(usage, "ai_tokens")
                  /\ process_jobs' = [process_jobs EXCEPT ![d].pc = "facts"]
    /\ UNCHANGED <<documents, summaries, facts, chunks, embeddings, audit, index,
                   env, regenerate_jobs, calls>>

\* lines 91-102: extract_facts; on success INSERT INTO facts, bump_usage
ProcessFacts(d) ==
    /\ process_jobs[d].pc = "facts"
    /\ \E response \in Replies, insert_ok \in RefOks(d), bump_ok \in Oks :
         LET facts_result == extract_facts(response)
         IN  IF ~facts_result.success
             THEN /\ process_jobs' = [process_jobs EXCEPT ![d].pc = "embed"]
                  /\ UNCHANGED <<facts, usage>>
             ELSE IF ~insert_ok
             THEN /\ process_jobs' = [process_jobs EXCEPT ![d] = Raise(@, "facts_insert")]
                  /\ UNCHANGED <<facts, usage>>
             ELSE IF ~bump_ok
             THEN /\ facts' = [facts EXCEPT ![d] = @ + 1]
                  /\ process_jobs' = [process_jobs EXCEPT ![d] = Raise(@, "facts_bump")]
                  /\ UNCHANGED usage
             ELSE /\ facts' = [facts EXCEPT ![d] = @ + 1]
                  /\ usage' = bump_usage(usage, "ai_tokens")
                  /\ process_jobs' = [process_jobs EXCEPT ![d].pc = "embed"]
    /\ UNCHANGED <<documents, summaries, clauses, chunks, embeddings, audit, index,
                   env, regenerate_jobs, calls>>

\* lines 104-112: chunk the text, embed every chunk, keep the non-empty
\* embeddings; with none kept the chunk and vector writes are skipped
ProcessEmbed(d) ==
    /\ process_jobs[d].pc = "embed"
    /\ LET job == process_jobs[d]
           chunk_list == JobChunks(job)
       IN  \E call_ok \in [1..Len(chunk_list) -> Oks] :
             LET kept == SelectNonEmpty(
                            [k \in 1..Len(chunk_list) |->
                                generate_embeddings(chunk_list[k], call_ok[k])])
             IN  process_jobs' = [process_jobs EXCEPT
                    ![d].embeddings = kept,
                    ![d].i = 0,
                    ![d].embedded = Obtained(kept),
                    ![d].pc = IF kept # << >> THEN "store_chunk" ELSE "complete"]
    /\ UNCHANGED <<store, index, env, regenerate_jobs, calls>>

\* lines 114-121: iteration i of  for i, (chunk, embedding) in
\* enumerate(zip(chunks, embeddings)):  INSERT INTO chunks
ProcessStoreChunk(d) ==
    /\ process_jobs[d].pc = "store_chunk"
    /\ LET job == process_jobs[d]
           chunk == JobChunks(job)[job.i + 1]
       IN  \E ok \in RefOks(d) :
             IF ok
             THEN /\ chunks' = chunks \cup
                        {ChunkRow(RowId(0, d, job.i), d, job.i, chunk)}
                  /\ process_jobs' = [process_jobs EXCEPT ![d].pc = "store_embedding"]
             ELSE /\ chunks' = chunks
                  /\ process_jobs' = [process_jobs EXCEPT ![d] = Raise(@, "chunk_insert")]
    /\ UNCHANGED <<documents, summaries, clauses, facts, embeddings, usage, audit, index,
                   env, regenerate_jobs, calls>>

\* lines 123-130: the same iteration, INSERT INTO embeddings; then the next
\* iteration, or the upsert after the last one
ProcessStoreEmbedding(d) ==
    /\ process_jobs[d].pc = "store_embedding"
    /\ LET job == process_jobs[d]
           last == job.i + 1 >= ZipLen(JobChunks(job), job.embeddings)
       IN  \E ok \in RefOks(d) :
             IF ok
             THEN /\ embeddings' = embeddings \cup
                        {EmbeddingRow(RowId(0, d, job.i), RowId(0, d, job.i),
                                      generate_vector_id(d, job.i))}
                  /\ process_jobs' = [process_jobs EXCEPT
                        ![d].i = job.i + 1,
                        ![d].pc = IF last THEN "upsert" ELSE "store_chunk"]
             ELSE /\ embeddings' = embeddings
                  /\ process_jobs' = [process_jobs EXCEPT ![d] = Raise(@, "embedding_insert")]
    /\ UNCHANGED <<documents, summaries, clauses, facts, chunks, usage, audit, index,
                   env, regenerate_jobs, calls>>

\* line 133: upsert_document_vectors(doc_id, firm_id, chunks, embeddings); its
\* result is not looked at
ProcessUpsert(d) ==
    /\ process_jobs[d].pc = "upsert"
    /\ LET job == process_jobs[d]
           vectors == BuildVectors(d, job.firm_id, JobChunks(job), job.embeddings)
       IN  \E sent \in Sent(vectors) :
             /\ index' = upsert_document_vectors(index, d, job.firm_id, JobChunks(job),
                                                 job.embeddings, sent)
             /\ process_jobs' = [process_jobs EXCEPT
                    ![d].upserted = IF UpsertReturns(vectors, sent)
                                    THEN "indexed" ELSE "not_indexed",
                    ![d].pc = "complete"]
    /\ UNCHANGED <<store, env, regenerate_jobs, calls>>

\* line 136: update_document_status(doc_id, 'completed')
ProcessComplete(d) ==
    /\ process_jobs[d].pc = "complete"
    /\ \E ok \in Oks :
         IF ok
         THEN /\ documents' = update_document_status(documents, d, "completed", NullText)
              /\ process_jobs' = [process_jobs EXCEPT ![d].pc = "audit"]
         ELSE /\ documents' = documents
              /\ process_jobs' = [process_jobs EXCEPT ![d] = Raise(@, "status_completed")]
    /\ UNCHANGED <<summaries, clauses, facts, chunks, embeddings, usage, audit, index,
                   env, regenerate_jobs, calls>>

\* lines 141-146: the result of a run that reached its end
ProcessResult(job) ==
    [success |-> TRUE, chunks_count |-> Len(JobChunks(job)),
     embeddings_count |-> Len(job.embeddings)]

\* lines 139-146: log_audit('document_processed', ...) and the result
ProcessAudit(d) ==
    /\ process_jobs[d].pc = "audit"
    /\ LET job == process_jobs[d]
       IN  \E ok \in Oks :
             IF ok
             THEN /\ audit' = log_audit(audit, "document_processed", d)
                  /\ process_jobs' = [process_jobs EXCEPT ![d] =
                        Return(@, ProcessResult(job).success,
                               ProcessResult(job).chunks_count,
                               ProcessResult(job).embeddings_count)]
             ELSE /\ audit' = audit
                  /\ process_jobs' = [process_jobs EXCEPT ![d] = Raise(@, "log_audit")]
    /\ UNCHANGED <<documents, summaries, clauses, facts, chunks, embeddings, usage, index,
                   env, regenerate_jobs, calls>>

\* lines 148-150: except Exception: update_document_status(doc_id, 'failed');
\* an exception of that call leaves the task
ProcessHandler(d) ==
    /\ process_jobs[d].pc = "handler"
    /\ \E ok \in Oks :
         IF ok
         THEN /\ documents' = update_document_status(documents, d, "failed", NullText)
              /\ process_jobs' = [process_jobs EXCEPT ![d] = Return(@, FALSE, 0, 0)]
         ELSE /\ documents' = documents
              /\ process_jobs' = [process_jobs EXCEPT ![d].pc = "crashed",
                        ![d].text_content = EmptyText, ![d].embeddings = << >>, ![d].i = 0]
    /\ UNCHANGED <<summaries, clauses, facts, chunks, embeddings, usage, audit, index,
                   env, regenerate_jobs, calls>>

----------------------------------------------------------------------------
(* routes_documents.py: regenerate_analysis *)

Roles == {"admin", "lawyer", "paralegal"}

\* POST /{doc_id}/regenerate by a user of firm_id with that role: a
\* regenerate_embeddings task for the document is queued
regenerate_analysis(doc_id, firm_id, role, k) ==
    /\ role \in {"admin", "lawyer"}
    /\ documents[doc_id].exists
    /\ documents[doc_id].firm_id = firm_id
    /\ regenerate_jobs[k].pc = "none"
    /\ \A j \in RegenIds : j < k => regenerate_jobs[j].pc # "none"
    /\ regenerate_jobs' = [regenerate_jobs EXCEPT ![k] =
            [NoRegenerateJob EXCEPT !.pc = "queued", !.doc_id = doc_id]]
    /\ UNCHANGED <<store, index, env, process_jobs, calls>>

----------------------------------------------------------------------------
(* tasks.py: regenerate_embeddings_task *)

\* the task's except branch returns the failure; so does the early return
RegenReturn(job, success, chunks_count, at) ==
    [job EXCEPT !.pc = "done", !.text_content = EmptyText, !.embeddings = << >>, !.i = 0,
                !.error = at,
                !.rows = Cardinality({r \in chunks : r.document_id = job.doc_id}),
                !.result = [success |-> success, chunks_count |-> chunks_count]]

\* chunk_text(text_content) of the task: the defaults, 500 and 50
RegenChunks(job) == chunk_text(job.text_content, CHUNK_SIZE, OVERLAP)

\* the first position from i on whose embedding is kept by  if embedding:
RECURSIVE NextKept(_, _)
NextKept(embedding_list, i) ==
    IF i >= Len(embedding_list) THEN i
    ELSE IF NonEmpty(embedding_list[i + 1]) THEN i
    ELSE NextKept(embedding_list, i + 1)

\* a task that goes on without looking at what get_document_by_id returned
RegenerateStartUnchecked(k) ==
    /\ regenerate_jobs[k].pc = "queued"
    /\ WorkerFree
    /\ LET job == regenerate_jobs[k]
           doc == documents[job.doc_id]
       IN  \E ok \in Oks :
             regenerate_jobs' = [regenerate_jobs EXCEPT ![k] =
                IF ~ok THEN RegenReturn(job, FALSE, 0, "get_document")
                ELSE [job EXCEPT !.pc = "delete_vectors", !.firm_id = doc.firm_id,
                                 !.text_content = doc.text_content]]
    /\ UNCHANGED <<store, index, env, process_jobs, calls>>

\* lines 160-162: get_document_by_id; without a row or a text, return failure
RegenerateStart(k) ==
    /\ regenerate_jobs[k].pc = "queued"
    /\ WorkerFree
    /\ LET job == regenerate_jobs[k]
           doc == documents[job.doc_id]
       IN  \E ok \in Oks :
             regenerate_jobs' = [regenerate_jobs EXCEPT ![k] =
                IF ~ok THEN RegenReturn(job, FALSE, 0, "get_document")
                ELSE IF ~doc.exists \/ ~Truthy(doc.text_content)
                THEN RegenReturn(job, FALSE, 0, "no_text")
                ELSE [job EXCEPT !.pc = "delete_vectors", !.firm_id = doc.firm_id,
                                 !.text_content = doc.text_content]]
    /\ UNCHANGED <<store, index, env, process_jobs, calls>>

\* line 165: delete_document_vectors(doc_id); its result is not looked at
RegenerateDeleteVectors(k) ==
    /\ regenerate_jobs[k].pc = "delete_vectors"
    /\ \E query_ok \in Oks, delete_ok \in Oks :
         index' \in delete_document_vectors(index, regenerate_jobs[k].doc_id, query_ok, delete_ok)
    /\ regenerate_jobs' = [regenerate_jobs EXCEPT ![k].pc = "delete_embeddings"]
    /\ UNCHANGED <<store, env, process_jobs, calls>>

\* a task that leaves the old embedding rows in place
RegenerateKeepEmbeddings(k) ==
    /\ regenerate_jobs[k].pc = "delete_embeddings"
    /\ regenerate_jobs' = [regenerate_jobs EXCEPT ![k].pc = "delete_chunks"]
    /\ UNCHANGED <<store, index, env, process_jobs, calls>>

\* line 168: DELETE FROM embeddings WHERE chunk_id IN (SELECT id FROM chunks
\* WHERE document_id = doc_id)
RegenerateDeleteEmbeddings(k) ==
    /\ regenerate_jobs[k].pc = "delete_embeddings"
    /\ LET job == regenerate_jobs[k]
           ids == {c.id : c \in {r \in chunks : r.document_id = job.doc_id}}
       IN  \E ok \in Oks :
             IF ok
             THEN /\ embeddings' = {e \in embeddings : e.chunk_id \notin ids}
                  /\ regenerate_jobs' = [regenerate_jobs EXCEPT ![k].pc = "delete_chunks"]
             ELSE /\ embeddings' = embeddings
                  /\ regenerate_jobs' = [regenerate_jobs EXCEPT ![k] =
                        RegenReturn(job, FALSE, 0, "delete_embeddings")]
    /\ UNCHANGED <<documents, summaries, clauses, facts, chunks, usage, audit, index, env,
                   process_jobs, calls>>

\* lines 169-174: DELETE FROM chunks WHERE document_id = doc_id; then chunk the
\* text and embed every chunk, keeping every result
RegenerateDeleteChunks(k) ==
    /\ regenerate_jobs[k].pc = "delete_chunks"
    /\ LET job == regenerate_jobs[k]
           chunk_list == RegenChunks(job)
       IN  \E ok \in Oks, call_ok \in [1..Len(chunk_list) -> Oks] :
             IF ok
             THEN LET all == [j \in 1..Len(chunk_list) |->
                                generate_embeddings(chunk_list[j], call_ok[j])]
                      first == NextKept(all, 0)
                  IN  /\ chunks' = {r \in chunks : r.document_id # job.doc_id}
                      /\ regenerate_jobs' = [regenerate_jobs EXCEPT
                            ![k].embeddings = all,
                            ![k].i = first,
                            ![k].pc = IF first < ZipLen(chunk_list, all)
                                      THEN "store_chunk" ELSE "upsert"]
             ELSE /\ chunks' = chunks
                  /\ regenerate_jobs' = [regenerate_jobs EXCEPT ![k] =
                        RegenReturn(job, FALSE, 0, "delete_chunks")]
    /\ UNCHANGED <<documents, summaries, clauses, facts, embeddings, usage, audit, index, env,
                   process_jobs, calls>>

\* lines 178-186: iteration i of the loop, whose embedding is not empty:
\* INSERT INTO chunks
RegenerateStoreChunk(k) ==
    /\ regenerate_jobs[k].pc = "store_chunk"
    /\ LET job == regenerate_jobs[k]
           chunk == RegenChunks(job)[job.i + 1]
       IN  \E ok \in RefOks(job.doc_id) :
             IF ok
             THEN /\ chunks' = chunks \cup
                        {ChunkRow(RowId(k, job.doc_id, job.i), job.doc_id, job.i, chunk)}
                  /\ regenerate_jobs' = [regenerate_jobs EXCEPT ![k].pc = "store_embedding"]
             ELSE /\ chunks' = chunks
                  /\ regenerate_jobs' = [regenerate_jobs EXCEPT ![k] =
                        RegenReturn(job, FALSE, 0, "chunk_insert")]
    /\ UNCHANGED <<documents, summaries, clauses, facts, embeddings, usage, audit, index, env,
                   process_jobs, calls>>

\* lines 188-194: the same iteration, INSERT INTO embeddings; then the next
\* iteration with an embedding, or the upsert
RegenerateStoreEmbedding(k) ==
    /\ regenerate_jobs[k].pc = "store_embedding"
    /\ LET job == regenerate_jobs[k]
           next == NextKept(job.embeddings, job.i + 1)
       IN  \E ok \in RefOks(job.doc_id) :
             IF ok
             THEN /\ embeddings' = embeddings \cup
                        {EmbeddingRow(RowId(k, job.doc_id, job.i), RowId(k, job.doc_id, job.i),
                                      generate_vector_id(job.doc_id, job.i))}
                  /\ regenerate_jobs' = [regenerate_jobs EXCEPT
                        ![k].i = next,
                        ![k].pc = IF next < ZipLen(RegenChunks(job), job.embeddings)
                                  THEN "store_chunk" ELSE "upsert"]
             ELSE /\ embeddings' = embeddings
                  /\ regenerate_jobs' = [regenerate_jobs EXCEPT ![k] =
                        RegenReturn(job, FALSE, 0, "embedding_insert")]
    /\ UNCHANGED <<documents, summaries, clauses, facts, chunks, usage, audit, index, env,
                   process_jobs, calls>>

\* lines 197-199: upsert_document_vectors(doc_id, doc['firm_id'], chunks,
\* embeddings) with every chunk and every embedding; success
RegenerateUpsert(k) ==
    /\ regenerate_jobs[k].pc = "upsert"
    /\ LET job == regenerate_jobs[k]
           vectors == BuildVectors(job.doc_id, job.firm_id, RegenChunks(job), job.embeddings)
       IN  /\ \E sent \in Sent(vectors) :
                index' = upsert_document_vectors(index, job.doc_id, job.firm_id,
                                                 RegenChunks(job), job.embeddings, sent)
           /\ regenerate_jobs' = [regenerate_jobs EXCEPT ![k] =
                RegenReturn(job, TRUE, Len(RegenChunks(job)), "none")]
    /\ UNCHANGED <<store, env, process_jobs, calls>>

ProcessStep(d) ==
    \/ ProcessStart(d)
    \/ ProcessExtract(d)
    \/ ProcessSummary(d)
    \/ ProcessClauses(d)
    \/ ProcessFacts(d)
    \/ ProcessEmbed(d)
    \/ ProcessStoreChunk(d)
    \/ ProcessStoreEmbedding(d)
    \/ ProcessUpsert(d)
    \/ ProcessComplete(d)
    \/ ProcessAudit(d)
    \/ ProcessHandler(d)

\* the firms are interchangeable: the document is uploaded by a user of fA
Upload == \E firm_id \in {"fA"}, file \in Files, queued \in BOOLEAN, audited, bumped \in Oks :
    upload_document(firm_id, file, queued, audited, bumped)

RegenerateStep(k) ==
    \/ RegenerateStart(k)
    \/ RegenerateDeleteVectors(k)
    \/ RegenerateDeleteEmbeddings(k)
    \/ RegenerateDeleteChunks(k)
    \/ RegenerateStoreChunk(k)
    \/ RegenerateStoreEmbedding(k)
    \/ RegenerateUpsert(k)

\* requests accepted in this behaviour
RegenLimit == IF faults THEN MaxRegenFaulty ELSE MaxRegen

Regenerate == \E doc_id \in DocIds, firm_id \in Firms, role \in Roles, k \in 1..RegenLimit :
    regenerate_analysis(doc_id, firm_id, role, k)

Next ==
    \/ Upload
    \/ Regenerate
    \/ \E d \in DocIds : ProcessStep(d)
    \/ \E k \in RegenIds : RegenerateStep(k)

Spec == Init /\ [][Next]_vars

\* a pool of two workers, every call succeeding: the interleavings of the
\* tasks the routes start (the except branch of process_document is not entered)
InitConcurrent == InitEnv(2, FALSE)

ProcessRun(d) ==
    \/ ProcessStart(d)
    \/ ProcessExtract(d)
    \/ ProcessSummary(d)
    \/ ProcessClauses(d)
    \/ ProcessFacts(d)
    \/ ProcessEmbed(d)
    \/ ProcessStoreChunk(d)
    \/ ProcessStoreEmbedding(d)
    \/ ProcessUpsert(d)
    \/ ProcessComplete(d)
    \/ ProcessAudit(d)

NextReliable ==
    \/ Upload
    \/ Regenerate
    \/ \E d \in DocIds : ProcessRun(d)
    \/ \E k \in RegenIds : RegenerateStep(k)

SpecConcurrent == InitConcurrent /\ [][NextReliable]_vars

\* one worker, every call succeeding
InitReliable == InitEnv(1, FALSE)
SpecReliable == InitReliable /\ [][NextReliable]_vars

----------------------------------------------------------------------------
(* routes_documents.py: delete_document *)

\* DELETE FROM documents WHERE id = doc_id. The schema (migrations/
\* 001_init_postgres.sql) is not part of the source; the rows that reference
\* the document are taken to go with it (ON DELETE CASCADE)
DeleteDocumentRow(doc_id) ==
    /\ documents' = [documents EXCEPT ![doc_id] = DeletedDoc]
    /\ summaries' = [summaries EXCEPT ![doc_id] = 0]
    /\ clauses' = [clauses EXCEPT ![doc_id] = 0]
    /\ facts' = [facts EXCEPT ![doc_id] = 0]
    /\ chunks' = {r \in chunks : r.document_id # doc_id}
    /\ embeddings' = {e \in embeddings :
                        e.chunk_id \notin {r.id : r \in {c \in chunks : c.document_id = doc_id}}}

\* DELETE /{doc_id} by a user of firm_id with that role: the row is deleted,
\* then the vectors (the result of delete_document_vectors is not looked at),
\* then the audit row is written and success is returned. A failed DELETE or
\* a failed audit write ends the request with an error
delete_document(doc_id, firm_id, role, deleted, query_ok, delete_ok, audited) ==
    /\ role \in {"admin"}
    /\ documents[doc_id].exists
    /\ documents[doc_id].firm_id = firm_id
    /\ IF ~deleted
       THEN UNCHANGED <<store, index>>
       ELSE /\ DeleteDocumentRow(doc_id)
            /\ index' \in delete_document_vectors(index, doc_id, query_ok, delete_ok)
            /\ audit' = IF audited THEN log_audit(audit, "delete", doc_id) ELSE audit
            /\ UNCHANGED usage
    /\ UNCHANGED <<env, process_jobs, regenerate_jobs, calls>>

DeleteDocument ==
    \E doc_id \in DocIds, firm_id \in Firms, role \in Roles :
    \E deleted \in Oks, query_ok \in Oks, delete_ok \in Oks, audited \in Oks :
        /\ delete_document(doc_id, firm_id, role, deleted, query_ok, delete_ok, audited)
        /\ vars' # vars

\* a document from its upload to its deletion
NextLifecycle ==
    \/ Upload
    \/ DeleteDocument
    \/ \E d \in DocIds : ProcessStep(d)

SpecLifecycle == Init /\ [][NextLifecycle]_vars

\* the regenerate requests and tasks as well
NextProgram ==
    \/ Upload
    \/ Regenerate
    \/ DeleteDocument
    \/ \E d \in DocIds : ProcessStep(d)
    \/ \E k \in RegenIds : RegenerateStep(k)

SpecProgram == Init /\ [][NextProgram]_vars

----------------------------------------------------------------------------
(* routes_documents.py: chat_with_document *)

\* a raising search instead of an empty result
SearchOutcomesUnguarded(idx, firm_id, top_k, doc_id, call_ok) ==
    IF ~index_configured \/ ~call_ok THEN {[raised |-> TRUE, chunks |-> {}]}
    ELSE {[raised |-> FALSE, chunks |-> found] :
          found \in search_similar_chunks(idx, firm_id, top_k, doc_id, call_ok)}

\* what the call of search_similar_chunks may do in the handler: it returns
\* chunks and never raises
SearchOutcomes(idx, firm_id, top_k, doc_id, call_ok) ==
    {[raised |-> FALSE, chunks |-> found] :
     found \in search_similar_chunks(idx, firm_id, top_k, doc_id, call_ok)}

\* the answer row before the question row
ChatRowsAnswerFirst(session_id, tokens) ==
    <<[session_id |-> session_id, message_type |-> "answer", tokens_used |-> tokens],
      [session_id |-> session_id, message_type |-> "question", tokens_used |-> 0]>>

\* lines 246-249: the rows of a turn in the order of their INSERT
ChatRows(session_id, tokens) ==
    <<[session_id |-> session_id, message_type |-> "question", tokens_used |-> 0],
      [session_id |-> session_id, message_type |-> "answer", tokens_used |-> tokens]>>

\* lines 252-253: the bump_usage calls of a turn
ChatBumps(tokens) ==
    <<[metric |-> "ai_tokens", value |-> tokens], [metric |-> "chats", value |-> 1]>>

\* the calls of a chat request may fail whatever the worker's calls do
ChatOks == BOOLEAN
Sessions == {None, "s1"}

\* POST /chat about document_id by a user of firm_id. got: get_document_by_id
\* returned; search_ok, reply_ok: the index and completion calls returned;
\* written: how many of the two INSERTs and two bumps were done before one
\* raised (4: none raised). The query embedding (a vector, the all-zero list
\* or an empty list, generate_embeddings does not raise) only bears on what
\* the index answers, which is open here
chat_with_document(document_id, firm_id, session_id, got, search_ok, reply_ok, tokens, written) ==
    LET turn == last_chat.turn + 1
        request == [NoChat EXCEPT !.turn = turn, !.document_id = document_id,
                                  !.firm_id = firm_id]
        doc == documents[document_id]
        retrieval == IF ~index_configured THEN "unconfigured"
                     ELSE IF ~search_ok THEN "raised" ELSE "queried"
        session == IF session_id # None THEN session_id ELSE "new"
        rows == ChatRows(session, tokens)
        bumps == ChatBumps(tokens)
    IN  /\ last_chat.turn < MaxChats
        /\ IF ~got
           THEN /\ last_chat' = [request EXCEPT !.outcome = "store_failed"]
                /\ UNCHANGED <<chat_messages, usage>>
           ELSE IF ~doc.exists \/ doc.firm_id # firm_id
           THEN /\ last_chat' = [request EXCEPT !.outcome = "not_found"]
                /\ UNCHANGED <<chat_messages, usage>>
           ELSE \E o \in SearchOutcomes(index, firm_id, CHAT_TOP_K, document_id, search_ok) :
                LET similar_chunks == o.chunks
                    context == {c.text : c \in similar_chunks}
                    response == chat_with_context(context, << >>, reply_ok, tokens)
                    asked == [request EXCEPT
                                !.retrieval = IF retrieval = "queried" /\ similar_chunks = {}
                                              THEN "no_match"
                                              ELSE IF retrieval = "queried" THEN "matched"
                                              ELSE retrieval]
                IN  IF o.raised
                    THEN /\ last_chat' = [asked EXCEPT !.outcome = "retrieval_failed"]
                         /\ UNCHANGED <<chat_messages, usage>>
                    ELSE IF ~response.success
                    THEN /\ last_chat' = [asked EXCEPT !.completion = response.messages,
                                                       !.outcome = "completion_failed"]
                         /\ UNCHANGED <<chat_messages, usage>>
                    ELSE /\ chat_messages' = chat_messages \o SubSeq(rows, 1, Min(written, 2))
                         /\ usage' = [m \in DOMAIN usage |->
                                usage[m] + Cardinality({k \in 1..(written - 2) :
                                                          bumps[k].metric = m})]
                         /\ last_chat' = [asked EXCEPT
                                !.completion = response.messages,
                                !.outcome = IF written = 4 THEN "ok" ELSE "store_failed",
                                !.sources = IF written = 4 THEN similar_chunks ELSE {},
                                !.bumped = SubSeq(bumps, 1, written - 2)]
        /\ UNCHANGED <<documents, summaries, clauses, facts, chunks, embeddings, audit, index,
                       env, process_jobs, regenerate_jobs, last_search, last_delete,
                       last_call>>

Chat ==
    \E document_id \in DocIds, firm_id \in Firms, session_id \in Sessions :
    \E got \in ChatOks, search_ok \in ChatOks, reply_ok \in ChatOks :
    \E tokens \in {0, MaxTokens}, written \in 0..4 :
        chat_with_document(document_id, firm_id, session_id, got, search_ok, reply_ok,
                           tokens, written)

\* chat requests while a document is uploaded and processed, the tasks' calls
\* succeeding
NextChat ==
    \/ Upload
    \/ Chat
    \/ \E d \in DocIds : ProcessRun(d)

SpecChat == InitReliable /\ [][NextChat]_vars

----------------------------------------------------------------------------
(* The index on its own: upserts, deletes and searches in any order *)

IndexDocs == {"d1", "d2"}
IndexTexts == {Text(1, TRUE), Text(MaxWords, TRUE)}

\* upsert_document_vectors for a document of a firm, with the chunks of a text
\* and an embedding for each
IndexUpsertCall(doc_id, firm_id, text) ==
    LET chunk_list == chunk_text(text, CHUNK_SIZE, OVERLAP)
        embedding_list == [k \in 1..Len(chunk_list) |-> RealVector(chunk_list[k])]
        vectors == BuildVectors(doc_id, firm_id, chunk_list, embedding_list)
    IN  /\ \E sent \in Sent(vectors) :
             index' = upsert_document_vectors(index, doc_id, firm_id, chunk_list,
                                              embedding_list, sent)
        /\ index' # index
        /\ UNCHANGED <<store, env, process_jobs, regenerate_jobs, calls>>

\* delete_document_vectors(doc_id)
IndexDeleteCall(doc_id) ==
    /\ \E query_ok \in Oks, delete_ok \in Oks :
         index' \in delete_document_vectors(index, doc_id, query_ok, delete_ok)
    /\ index' # index
    /\ UNCHANGED <<store, env, process_jobs, regenerate_jobs, calls>>

\* search_similar_chunks(query_embedding, firm_id, top_k, doc_id) for any query
\* embedding: the scores, and so which top_k matches are returned, are open
IndexSearchCall(firm_id, top_k, doc_id) ==
    /\ \E call_ok \in Oks :
       \E found \in search_similar_chunks(index, firm_id, top_k, doc_id, call_ok) :
         last_search' = [firm_id |-> firm_id, doc_id |-> doc_id, top_k |-> top_k,
                         chunks |-> found]
    /\ UNCHANGED <<store, index, env, process_jobs, regenerate_jobs, last_delete, chat,
                   last_call>>

NextIndex ==
    \/ \E doc_id \in IndexDocs, firm_id \in Firms, text \in IndexTexts :
         IndexUpsertCall(doc_id, firm_id, text)
    \/ \E doc_id \in IndexDocs : IndexDeleteCall(doc_id)
    \/ \E firm_id \in Firms, top_k \in 1..MaxTopK, doc_id \in IndexDocs \cup {None} :
         IndexSearchCall(firm_id, top_k, doc_id)

InitIndex ==
    /\ InitEnv(1, TRUE)
    /\ index_configured

SpecIndex == InitIndex /\ [][NextIndex]_vars

----------------------------------------------------------------------------
(* delete_document_vectors on an index that holds whole documents *)

\* the windows chunk_text returns for a text of n windows
Windows(n) ==
    [k \in 1..n |-> Chunk((k - 1) * (CHUNK_SIZE - OVERLAP),
                           (k - 1) * (CHUNK_SIZE - OVERLAP) + CHUNK_SIZE)]

\* what upsert_document_vectors leaves in an empty index for a document of n
\* chunks, each with an embedding of the provider
StoredVectors(doc_id, firm_id, n) ==
    LET chunk_list == Windows(n)
        embedding_list == [k \in 1..n |-> RealVector(chunk_list[k])]
        vectors == BuildVectors(doc_id, firm_id, chunk_list, embedding_list)
    IN  {vectors[k] : k \in 1..n}

\* chunks of the documents indexed: none, few, as many as one query returns,
\* and one more
StoredChunks == {0, MaxStored, DELETE_TOP_K, DELETE_TOP_K + 1}
StoredIndexes ==
    {StoredVectors("d1", "fA", n) \cup StoredVectors("d2", "fB", m) :
        n \in StoredChunks, m \in {MaxStored}}

\* a call of delete_document_vectors(doc_id)
DeleteVectorsCall(doc_id) ==
    /\ LET others == {v \in index : v.metadata.doc_id # doc_id}
       IN  \E query_ok \in Oks, delete_ok \in Oks :
           \E o \in DeleteOutcomes(index, doc_id, query_ok, delete_ok) :
             /\ index' = o.index
             /\ last_delete' = [doc_id |-> doc_id, returned |-> o.returned,
                                others |-> others]
    /\ UNCHANGED <<store, env, process_jobs, regenerate_jobs, last_search, chat,
                   last_call>>

NextDelete == \E doc_id \in IndexDocs : DeleteVectorsCall(doc_id)

InitDelete ==
    /\ InitState(1, TRUE, StoredIndexes)
    /\ index_configured
    /\ provider = "openai"

SpecDelete == InitDelete /\ [][NextDelete]_vars

----------------------------------------------------------------------------
(* The functions of ai_service.py on their own *)

\* the texts chunk_text is called with: the empty str, a str of white space,
\* and texts of 1..MaxChunkWords words
ChunkTexts == {EmptyText, BlankText} \cup {Text(n, TRUE) : n \in 1..MaxChunkWords}

\* chunk_text(text, chunk_size, overlap) with 0 <= overlap < chunk_size
ChunkTextCall(text, chunk_size, overlap) ==
    /\ last_call' = [NoCall EXCEPT !.fn = "chunk_text", !.text = text,
                                   !.chunk_size = chunk_size, !.overlap = overlap,
                                   !.chunks = chunk_text(text, chunk_size, overlap)]
    /\ UNCHANGED <<store, index, env, process_jobs, regenerate_jobs, last_search,
                   last_delete, chat>>

\* generate_summary, extract_clauses or extract_facts of a text for which
\* _call_ai_provider returns `response`
ExtractionCall(response) ==
    /\ \/ last_call' = [NoCall EXCEPT !.fn = "generate_summary", !.response = response,
                                       !.result = generate_summary(response)]
       \/ last_call' = [NoCall EXCEPT !.fn = "extract_clauses", !.response = response,
                                       !.result = extract_clauses(response)]
       \/ last_call' = [NoCall EXCEPT !.fn = "extract_facts", !.response = response,
                                       !.result = extract_facts(response)]
    /\ UNCHANGED <<store, index, env, process_jobs, regenerate_jobs, last_search,
                   last_delete, chat>>

NextFunctions ==
    \/ \E text \in ChunkTexts, chunk_size \in 1..MaxChunkSize :
         \E overlap \in 0..(chunk_size - 1) : ChunkTextCall(text, chunk_size, overlap)
    \/ \E response \in Responses : ExtractionCall(response)

SpecFunctions == InitReliable /\ [][NextFunctions]_vars

----------------------------------------------------------------------------
(* Properties *)

Finished(job) == job.pc \in {"done", "crashed"}
HasText(file) == file.readable /\ Truthy(Strip(file.text))
ChunkRowsOf(d) == {r \in chunks : r.document_id = d}
EmbeddingRowsOf(d) == {e \in embeddings : e.external_vector_id.doc_id = d}
VectorsOf(d) == {v \in index : v.metadata.doc_id = d}
NoArtifacts(d) ==
    /\ summaries[d] = 0 /\ clauses[d] = 0 /\ facts[d] = 0
    /\ ChunkRowsOf(d) = {} /\ EmbeddingRowsOf(d) = {} /\ VectorsOf(d) = {}
\* no regenerate task has got past its early return
NoRegeneration ==
    \A k \in RegenIds : regenerate_jobs[k].pc \in {"none", "queued"}
                        \/ regenerate_jobs[k].error \in {"get_document", "no_text"}

\* C1 (its last clause): once a run of process_document has set the status
\* completed or failed, no later step changes the status; and the status of a
\* document is always one of pending, processing, completed, failed.
C1_TerminalStatusIsFinal ==
    [][\A d \in DocIds :
          /\ documents[d].exists =>
                documents[d].status \in {"pending", "processing", "completed", "failed"}
          /\ (documents[d].exists /\ documents[d].status \in {"completed", "failed"})
                => documents'[d].status = documents[d].status]_vars

\* C2: search_similar_chunks called with firm_id A returns no chunk whose
\* vector metadata names another firm, whatever the index holds, whatever top_k
\* is and whether or not doc_id is given.
C2_SearchStaysInFirm ==
    \A c \in last_search.chunks : c.metadata.firm_id = last_search.firm_id

\* a search without doc_id returned chunks while the index held another firm's
\* vectors, more vectors than top_k
C2_Witness ==
    /\ last_search.chunks # {}
    /\ last_search.doc_id = None
    /\ \E v \in index : v.metadata.firm_id # last_search.firm_id
    /\ Cardinality(index) > last_search.top_k

\* C3: a run of process_document whose text extraction raised or yielded no
\* text has ended with status failed, has written no summary, clause, fact,
\* chunk or embedding-reference row and no vector, and has persisted no text.
C3_FailedExtraction ==
    \A d \in DocIds :
        (Finished(process_jobs[d]) /\ process_jobs[d].error \in {"no_text", "status_failed"})
            => /\ documents[d].status = "failed"
               /\ NoArtifacts(d)
               /\ documents[d].text_content = NullText

\* what does hold of such a run: nothing was written, and the status is failed
\* unless the store rejected the write of it in the except branch as well
ExtractionFailureWritesNothing ==
    \A d \in DocIds :
        (Finished(process_jobs[d]) /\ process_jobs[d].error \in {"no_text", "status_failed"})
            => /\ NoArtifacts(d)
               /\ documents[d].text_content = NullText
               /\ documents[d].status = "failed" \/ process_jobs[d].pc = "crashed"

\* C4: with a text extracted and every provider, store and index call
\* succeeding, the status goes pending, processing, completed with the run; at
\* the end a summary row exists and the chunk rows written are as many as
\* chunk_text returns chunks for the extracted text.
C4_HappyPath ==
    \A d \in DocIds :
        LET job == process_jobs[d]
        IN  (job.pc # "none" /\ HasText(job.file)) =>
              /\ job.pc \notin {"handler", "crashed"}
              /\ job.pc = "queued" => documents[d].status = "pending"
              /\ job.pc \in {"extract", "summary", "clauses", "facts", "embed", "store_chunk",
                             "store_embedding", "upsert", "complete"}
                    => documents[d].status = "processing"
              /\ job.pc \in {"audit", "done"} => documents[d].status = "completed"
              /\ job.pc = "done" => /\ job.result.success
                                    /\ summaries[d] = 1
              /\ (job.pc = "done" /\ NoRegeneration)
                    => Cardinality(ChunkRowsOf(d))
                          = Len(chunk_text(job.file.text, CHUNK_SIZE, OVERLAP))

\* a run over a text of two chunks has finished and left two chunk rows
C4_Witness ==
    \E d \in DocIds :
        /\ process_jobs[d].pc = "done"
        /\ HasText(process_jobs[d].file)
        /\ documents[d].status = "completed"
        /\ Cardinality(ChunkRowsOf(d)) = 2
        /\ NoRegeneration

\* C5: a failure confined to one of the summary, clauses and facts sub-tasks (a
\* response that is not the expected JSON, a failed write of its rows) does not
\* make the job end in failed.
C5_SubTaskFailureIsLocal ==
    \A d \in DocIds :
        (Finished(process_jobs[d])
            /\ process_jobs[d].error \in {"summary_get", "summary_insert", "clauses_get",
                                          "clauses_insert", "facts_insert"})
            => documents[d].status # "failed"

\* C6: at no time are two tasks executing for the same document.
C6_OneJobPerDocument ==
    \A d \in DocIds :
        Cardinality({x \in {0} : Executing(process_jobs[d])})
          + Cardinality({k \in RegenIds : /\ Executing(regenerate_jobs[k])
                                          /\ regenerate_jobs[k].doc_id = d}) <= 1

\* C7: every uploaded document ends up completed or failed. Only its process
\* task writes the status, so a document whose task was never queued, or has
\* ended, must have reached one of the two.
C7_NoDocumentLeftBehind ==
    \A d \in DocIds :
        (documents[d].exists /\ process_jobs[d].pc \in {"none", "done", "crashed"})
            => documents[d].status \in {"completed", "failed"}

\* C8: no vector in the index has the all-zero sentinel or an empty list as its
\* values.
C8_NoSentinelIndexed ==
    \A v \in index : v.values.kind = "real"

\* C9: a run whose extraction and summary succeeded and in which no chunk
\* obtained an embedding ends completed, having written no chunk row, no
\* embedding-reference row and no vector.
C9_NoEmbeddingStillCompletes ==
    \A d \in DocIds :
        LET job == process_jobs[d]
        IN  (Finished(job) /\ summaries[d] >= 1 /\ job.embedded \in {"sentinel", "nothing"}
                /\ NoRegeneration)
              => /\ documents[d].status = "completed"
                 /\ ChunkRowsOf(d) = {} /\ EmbeddingRowsOf(d) = {} /\ VectorsOf(d) = {}

\* C10: when no task is executing, every chunk row has exactly one
\* embedding-reference row, and every embedding-reference row names a vector
\* that is in the index.
C10_ReferenceHasVector ==
    ((\A d \in DocIds : ~Executing(process_jobs[d]))
        /\ (\A k \in RegenIds : ~Executing(regenerate_jobs[k])))
      => /\ \A c \in chunks : Cardinality({e \in embeddings : e.chunk_id = c.id}) = 1
         /\ \A e \in embeddings : \E v \in index : v.id = e.external_vector_id

\* C11: after delete_document_vectors(doc_id) has returned True the index
\* holds no vector of that document, however many it held, and the vectors of
\* the other documents are those it held before the call.
C11_DeleteRemovesEveryVector ==
    last_delete.returned =>
        /\ VectorsOf(last_delete.doc_id) = {}
        /\ {v \in index : v.metadata.doc_id # last_delete.doc_id} = last_delete.others

\* what does hold: the vectors of the other documents are untouched, and none
\* of the document is left when it had at most as many as the query returns
DeleteWithinQueryLimit ==
    last_delete.returned =>
        /\ Cardinality(VectorsOf(last_delete.doc_id)) <= 1
        /\ {v \in index : v.metadata.doc_id # last_delete.doc_id} = last_delete.others

\* deleting the ids of a query's matches leaves what the query did not select
\* and what it left out (the form DeleteOutcomes uses)
DeleteLeavesTheMisses ==
    \A d \in IndexDocs, top_k \in 0..MaxTopK :
        \A out \in IndexQueryMisses(index, None, d, top_k) :
            IndexDelete(index, {m.id : m \in Filtered(index, None, d) \ out})
                = {v \in index : v.metadata.doc_id # d} \cup out

C13_DeleteDocumentPurges ==
    [][\A d \in DocIds :
          (<<"delete", d>> \notin audit /\ <<"delete", d>> \in audit')
            => (ChunkRowsOf(d)' = {} /\ EmbeddingRowsOf(d)' = {} /\ VectorsOf(d)' = {})]_vars

\* C14: a chat request whose retrieval found nothing (index unconfigured,
\* the query raised, or no match) does not fail because of the retrieval: the
\* completion client was called with the system prompt and an empty context,
\* and an answer comes back with no sources.
C14_ChatWithoutChunks ==
    last_chat.retrieval \in {"unconfigured", "raised", "no_match"} =>
        /\ last_chat.outcome \in {"ok", "completion_failed", "store_failed"}
        /\ last_chat.completion # << >>
        /\ Head(last_chat.completion) = SystemPrompt
        /\ last_chat.completion[Len(last_chat.completion)] = UserMessage({})
        /\ last_chat.outcome = "ok" => last_chat.sources = {}

\* a request was answered although the query on a configured index raised,
\* the index holding vectors of the document
C14_Witness ==
    /\ last_chat.retrieval = "raised"
    /\ last_chat.outcome = "ok"
    /\ last_chat.document_id # None
    /\ VectorsOf(last_chat.document_id) # {}

\* C15: a successful chat turn appends the question row and then the answer
\* row of its session and nothing else, and bumps ai_tokens once by the
\* answer's tokens and chats once by one; a turn whose completion call failed
\* appends no row and bumps nothing.
C15_ChatTurnRows ==
    [][last_chat'.turn # last_chat.turn =>
         /\ last_chat'.outcome = "ok" =>
               /\ Len(chat_messages') = Len(chat_messages) + 2
               /\ SubSeq(chat_messages', 1, Len(chat_messages)) = chat_messages
               /\ LET q == chat_messages'[Len(chat_messages) + 1]
                      a == chat_messages'[Len(chat_messages) + 2]
                  IN  /\ q.message_type = "question" /\ a.message_type = "answer"
                      /\ q.session_id = a.session_id
                      /\ last_chat'.bumped = <<[metric |-> "ai_tokens", value |-> a.tokens_used],
                                               [metric |-> "chats", value |-> 1]>>
               /\ usage' = [usage EXCEPT !["ai_tokens"] = @ + 1, !["chats"] = @ + 1]
         /\ last_chat'.outcome = "completion_failed" =>
               /\ chat_messages' = chat_messages
               /\ usage' = usage]_vars

\* a turn has succeeded and the next one failed at the completion call
C15_Witness ==
    /\ last_chat.turn = 2
    /\ last_chat.outcome = "completion_failed"
    /\ Len(chat_messages) = 2
    /\ usage["chats"] = 1


\* C16: a failure of a usage-ledger bump or of the audit-log write during
\* process_document never changes the job's outcome: a task that caught such
\* a failure, all its extraction and persistence steps before it having
\* succeeded, still leaves the document with status completed
C16_LedgerFailureIsSwallowed ==
    \A d \in DocIds :
        (/\ process_jobs[d].pc = "done"
         /\ process_jobs[d].error \in {"summary_bump", "clauses_bump", "facts_bump",
                                       "log_audit"})
        => documents[d].status = "completed"


\* C17: when the vector upsert of process_document failed (no index, or the
\* index call raised), the task that returns does not leave the document
\* failed, and its result differs from the result the same run returns when
\* the upsert succeeded
C17_FailedUpsertIsReported ==
    [][\A d \in DocIds :
         (/\ process_jobs[d].pc = "audit"
          /\ process_jobs'[d].pc = "done"
          /\ process_jobs[d].upserted = "not_indexed")
         => /\ documents'[d].status # "failed"
            /\ process_jobs'[d].result #
                 ProcessResult([process_jobs[d] EXCEPT !.upserted = "indexed"])]_vars


\* the words two windows have in common
Shared(a, b) ==
    IF Min(a.hi, b.hi) > (IF a.lo >= b.lo THEN a.lo ELSE b.lo)
    THEN Min(a.hi, b.hi) - (IF a.lo >= b.lo THEN a.lo ELSE b.lo)
    ELSE 0

\* ceil(a / b) for b > 0
Ceil(a, b) == -((-a) \div b)

\* every window has at most chunk_size words and two consecutive windows have
\* exactly overlap words in common
WindowsOverlap(windows, chunk_size, overlap) ==
    /\ \A k \in 1..Len(windows) : token_count(windows[k]) <= chunk_size
    /\ \A k \in 1..(Len(windows) - 1) : Shared(windows[k], windows[k + 1]) = overlap

\* C18 as stated: for a text of n words and 0 <= overlap < size, chunk_text
\* returns ceil((n - overlap) / (size - overlap)) windows of at most size
\* words, consecutive windows share exactly overlap words, and n <= size
\* yields exactly one chunk
C18_WindowCountAsStated ==
    last_call.fn = "chunk_text" =>
        LET n == last_call.text.words
            size == last_call.chunk_size
            overlap == last_call.overlap
        IN  /\ Len(last_call.chunks) = Ceil(n - overlap, size - overlap)
            /\ WindowsOverlap(last_call.chunks, size, overlap)
            /\ (n <= size => Len(last_call.chunks) = 1)

\* C18: for a text of n words and 0 <= overlap < size, chunk_text returns no
\* window when n = 0, one window when 0 < n <= size and
\* ceil((n - overlap) / (size - overlap)) windows when n > size; every window
\* has at most size words and consecutive windows share exactly overlap words
C18_WindowCount ==
    last_call.fn = "chunk_text" =>
        LET n == last_call.text.words
            size == last_call.chunk_size
            overlap == last_call.overlap
        IN  /\ Len(last_call.chunks) =
                    IF n = 0 THEN 0
                    ELSE IF n <= size THEN 1
                    ELSE Ceil(n - overlap, size - overlap)
            /\ WindowsOverlap(last_call.chunks, size, overlap)

\* a text longer than two windows chunked with an overlap, the last window
\* shorter than the others
C18_Witness ==
    /\ last_call.fn = "chunk_text"
    /\ last_call.overlap > 0
    /\ Len(last_call.chunks) >= 3
    /\ token_count(last_call.chunks[Len(last_call.chunks)]) < last_call.chunk_size

\* C19: for 0 <= overlap < chunk_size, chunk_text returns at least one chunk
\* for a non-empty text and no chunk for the empty text
C19_ChunksOfNonEmptyText ==
    last_call.fn = "chunk_text" =>
        /\ (Truthy(last_call.text) => Len(last_call.chunks) >= 1)
        /\ (last_call.text = EmptyText => Len(last_call.chunks) = 0)

\* C20: each of generate_summary, extract_clauses and extract_facts returns
\* for a response that wraps a JSON object in a fenced code block the
\* successful result it returns for the JSON object unwrapped
C20_FencedObjectIsParsed ==
    last_call.response = "fenced_object" =>
        /\ last_call.result.success
        /\ (last_call.fn = "generate_summary"
                => last_call.result = generate_summary("json_object"))
        /\ (last_call.fn = "extract_clauses"
                => last_call.result = extract_clauses("json_object"))
        /\ (last_call.fn = "extract_facts"
                => last_call.result = extract_facts("json_object"))


\* C21: the values of every vector written by process_document or
\* regenerate_embeddings are the embedding generated for the very chunk whose
\* text and chunk_index the vector's metadata holds and which the chunk row
\* with that index holds, also when the embedding call of an earlier chunk of
\* the document failed
C21_VectorMatchesItsChunk ==
    \A v \in index :
        v.values.kind = "real" =>
            /\ Excerpt(v.values.text) = v.metadata.text
            /\ \A r \in chunks :
                 (r.document_id = v.metadata.doc_id /\ r.chunk_index = v.metadata.chunk_index)
                 => r.chunk_text = v.values.text


\* C22: when regenerate_embeddings returns success for a document, every chunk
\* row and embedding-reference row of the document was written by that run and
\* every index vector of the document is one that run built from the persisted
\* text: nothing of an earlier run remains, also when the vector delete failed
C22_RegenerateSupersedes ==
    [][\A k \in RegenIds :
         LET job == regenerate_jobs[k]
             built == BuildVectors(job.doc_id, job.firm_id, RegenChunks(job), job.embeddings)
         IN  (job.pc = "upsert" /\ regenerate_jobs'[k].pc = "done"
                /\ regenerate_jobs'[k].result.success)
             => /\ \A r \in ChunkRowsOf(job.doc_id)' : r.id.job = k
                /\ \A e \in EmbeddingRowsOf(job.doc_id)' : e.id.job = k
                /\ \A v \in VectorsOf(job.doc_id)' :
                     \E n \in 1..Len(built) : v = built[n]]_vars


\* C23: for a chat turn in a session the request names and that already has
\* earlier turns, the completion request holds the system instruction, then the
\* earlier messages of the session limited to the last 6, then the new question
\* with its context
C23_HistoryInPrompt ==
    [][(last_chat'.turn # last_chat.turn /\ last_chat'.outcome = "ok") =>
         LET session == chat_messages'[Len(chat_messages')].session_id
             IsOfSession(m) == m.session_id = session
             earlier == SelectSeq(chat_messages, IsOfSession)
             sent == last_chat'.completion
         IN  (session # "new" /\ earlier # << >>
                /\ earlier[Len(earlier)].message_type = "answer") =>
                /\ Len(sent) = 2 + Min(Len(earlier), HISTORY_KEPT)
                /\ sent[1] = SystemPrompt
                /\ sent[Len(sent)].role = "user"]_vars


\* C24: in every reachable state, a document that has a summary, clause, fact,
\* chunk or embedding-reference row or an index vector has its extracted text
\* persisted and non-empty
C24_ArtifactsNeedText ==
    \A d \in DocIds :
        ~NoArtifacts(d) => (documents[d].exists /\ Truthy(documents[d].text_content))


\* some task has finished and none is running
JobsAtRest ==
    /\ Running = 0
    /\ \/ \E d \in DocIds : Finished(process_jobs[d])
       \/ \E k \in RegenIds : Finished(regenerate_jobs[k])

\* the text of the chunk row starts with the excerpt
StartsWith(chunk, excerpt) == excerpt.lo = chunk.lo /\ excerpt.chars <= CharLen(chunk)

\* C25: in every state reached after a process_document or
\* regenerate_embeddings job has finished, every vector {doc_id}_chunk_{i} of
\* the index has a chunk row of document doc_id with chunk_index i whose text
\* starts with the vector's text excerpt (of the vectors sent, those without
\* values are left aside: an index may refuse them)
C25_VectorHasChunkRow ==
    JobsAtRest =>
        \A v \in index :
            NonEmpty(v.values) =>
            \E r \in chunks :
                /\ r.document_id = v.id.doc_id
                /\ r.chunk_index = v.id.chunk
                /\ StartsWith(r.chunk_text, v.metadata.text)


\* C26: under every interleaving of the process_document and
\* regenerate_embeddings tasks the routes can start, no two chunk rows have the
\* same (document_id, chunk_index) and no two embedding-reference rows have the
\* same external vector id
C26_NoDuplicateRows ==
    /\ \A r \in chunks, q \in chunks :
            (r.document_id = q.document_id /\ r.chunk_index = q.chunk_index) => r = q
    /\ \A e \in embeddings, f \in embeddings :
            e.external_vector_id = f.external_vector_id => e = f


\* C27: when delete_document has run (and returned success) while the
\* process_document task of the document was in flight, then once the task has finished too no vector, no
\* chunk row and no embedding-reference row of the deleted document exists
C27_DeleteDuringProcessing ==
    [][\A d \in DocIds :
         (/\ documents[d].status = "deleted"
          /\ <<"delete", d>> \in audit
          /\ Executing(process_jobs[d])
          /\ Finished(process_jobs'[d]))
         => (ChunkRowsOf(d)' = {} /\ EmbeddingRowsOf(d)' = {} /\ VectorsOf(d)' = {})]_vars


\* index and text of the chunk rows of a document
ChunkContents(d) ==
    {[chunk_index |-> r.chunk_index, chunk_text |-> r.chunk_text] : r \in ChunkRowsOf(d)}

\* ProcessArtifacts is what a process_document task has written when it
\* reaches the end: its rows before the upsert, its vectors after it
ProcessArtifactsAreWritten ==
    \A d \in DocIds :
        LET job == process_jobs[d]
            written == ProcessArtifacts(d, job.firm_id, job.text_content, job.embeddings)
        IN  /\ (job.pc = "upsert" /\ NoRegeneration) =>
                /\ ChunkContents(d) = written.chunks
                /\ {e.external_vector_id : e \in EmbeddingRowsOf(d)} = written.vector_ids
            /\ (job.pc = "complete" /\ job.upserted = "indexed" /\ NoRegeneration) =>
                VectorsOf(d) = written.vectors

\* C28: for the same persisted text and the same outcome of each chunk's
\* embedding call, a regenerate_embeddings run that succeeds leaves the chunk
\* rows (index and text) and the embedding-reference ids, and sends the
\* vectors (those with values), that process_document leaves and sends
C28_RegenerateAsProcess ==
    [][\A k \in RegenIds :
         LET job == regenerate_jobs[k]
             d == job.doc_id
             sent == BuildVectors(d, job.firm_id, RegenChunks(job), job.embeddings)
             same == ProcessArtifacts(d, job.firm_id, job.text_content,
                                      SelectNonEmpty(job.embeddings))
         IN  (job.pc = "upsert" /\ regenerate_jobs'[k].pc = "done"
                /\ regenerate_jobs'[k].result.success)
             => /\ ChunkContents(d)' = same.chunks
                /\ {e.external_vector_id : e \in EmbeddingRowsOf(d)'} = same.vector_ids
                /\ {sent[n] : n \in {m \in 1..Len(sent) : NonEmpty(sent[m].values)}}
                        = same.vectors]_vars


\* C29: a regenerate_embeddings task started for a document that does not
\* exist or has no persisted text returns a failure and neither deletes nor
\* writes a chunk row, an embedding-reference row or a vector; and no step of
\* a regenerate_embeddings task changes a document's status or text
C29_RegenerateWithoutText ==
    [][\A k \in RegenIds :
         LET job == regenerate_jobs[k]
             doc == documents[job.doc_id]
         IN  /\ (job.pc = "queued" /\ regenerate_jobs'[k].pc # "queued"
                   /\ (~doc.exists \/ ~Truthy(doc.text_content)))
                => /\ regenerate_jobs'[k].pc = "done"
                   /\ ~regenerate_jobs'[k].result.success
                   /\ chunks' = chunks /\ embeddings' = embeddings /\ index' = index
             /\ (job.pc # "none" /\ regenerate_jobs'[k] # job) => documents' = documents]_vars

\* a task has returned its failure for a document deleted after the request,
\* whose vectors are still in the index
C29_Witness ==
    \E k \in RegenIds :
        /\ regenerate_jobs[k].pc = "done"
        /\ regenerate_jobs[k].error = "no_text"
        /\ ~regenerate_jobs[k].result.success
        /\ ~documents[regenerate_jobs[k].doc_id].exists
        /\ VectorsOf(regenerate_jobs[k].doc_id) # {}


\* C30: for every text and 0 <= overlap < chunk_size the chunks of chunk_text
\* cover the text: every word is in some chunk, the chunks are in text order,
\* and the first chunk followed by the other chunks without their first
\* overlap words is the word sequence of the text
C30_ChunksCoverText ==
    last_call.fn = "chunk_text" =>
        LET n == last_call.text.words
            overlap == last_call.overlap
            windows == last_call.chunks
        IN  /\ \A w \in 0..(n - 1) :
                 \E k \in 1..Len(windows) : windows[k].lo <= w /\ w < windows[k].hi
            /\ \A k \in 1..(Len(windows) - 1) :
                 windows[k].lo < windows[k + 1].lo /\ windows[k].hi <= windows[k + 1].hi
            /\ (n = 0) = (windows = << >>)
            /\ windows # << >> => (windows[1].lo = 0 /\ windows[Len(windows)].hi = n)
            /\ \A k \in 2..Len(windows) :
                 /\ token_count(windows[k]) >= overlap
                 /\ windows[k].lo + overlap = windows[k - 1].hi

\* a text chunked with an overlap into several windows, the last of which
\* brings one word more than the overlap
C30_Witness ==
    /\ last_call.fn = "chunk_text"
    /\ last_call.overlap >= 2
    /\ Len(last_call.chunks) >= 2
    /\ token_count(last_call.chunks[Len(last_call.chunks)]) = last_call.overlap + 1

============================================================================
